---- MODULE Spec2Model ----
(***************************************************************************)
(* A model of src/main.py (AnkiHelper): the breadth-first traversal of a   *)
(* folder of markdown notes, the synthesis of one card per note and the    *)
(* create-or-update submission of the card to AnkiConnect.                 *)
(*                                                                         *)
(* Strings are sequences of one-character strings, so that str.lower(),    *)
(* str.strip(), str.split('|') and os.path.splitext() are computed and not *)
(* assumed.  A note's text is a record: the state of its leading metadata  *)
(* block and the sequence of the tokens of its content block.              *)
(***************************************************************************)
EXTENDS Integers, Sequences, FiniteSets, TLC

(* ------------------------------------------------------------------ *)
(* Bounds of the model                                                *)
(* ------------------------------------------------------------------ *)

\* how many store replies of one execution may be an error, a transport
\* failure or a malformed response
MaxFaults == 1

\* how many times the program is run (constructed and run()) against the store
MaxRuns == 2

(* ------------------------------------------------------------------ *)
(* Strings                                                            *)
(* ------------------------------------------------------------------ *)

\* str.lower() on one character of the model's alphabet
LowerChar(c) ==
    CASE c = "A" -> "a"
      [] c = "B" -> "b"
      [] c = "C" -> "c"
      [] c = "D" -> "d"
      [] c = "E" -> "e"
      [] c = "F" -> "f"
      [] c = "G" -> "g"
      [] c = "M" -> "m"
      [] OTHER -> c

\* str.lower()
Lower(s) == [i \in 1..Len(s) |-> LowerChar(s[i])]

\* str.endswith(suffix)
EndsWith(s, suffix) ==
    /\ Len(s) >= Len(suffix)
    /\ SubSeq(s, Len(s) - Len(suffix) + 1, Len(s)) = suffix

\* the index of the last "." of s, 0 when there is none (str.rfind('.') + 1)
LastDot(s) ==
    LET dots == {i \in 1..Len(s) : s[i] = "."}
    IN  IF dots = {} THEN 0 ELSE CHOOSE i \in dots : \A j \in dots : j <= i

\* os.path.splitext(s): the extension starts at the last dot, unless only
\* dots precede it
SplitExt(s) ==
    LET d == LastDot(s)
    IN  IF d > 0 /\ \E j \in 1..(d - 1) : s[j] # "."
        THEN <<SubSeq(s, 1, d - 1), SubSeq(s, d, Len(s))>>
        ELSE <<s, <<>>>>

\* str.strip() for the blank of the model's alphabet
RECURSIVE LStrip(_)
LStrip(s) == IF s # <<>> /\ Head(s) = " " THEN LStrip(Tail(s)) ELSE s

RECURSIVE RStrip(_)
RStrip(s) ==
    IF s # <<>> /\ s[Len(s)] = " " THEN RStrip(SubSeq(s, 1, Len(s) - 1)) ELSE s

Strip(s) == RStrip(LStrip(s))

\* str.split('|'): the sequence of the fields between the pipes
RECURSIVE SplitPipe(_)
SplitPipe(s) ==
    LET bars == {i \in 1..Len(s) : s[i] = "|"}
    IN  IF bars = {} THEN <<s>>
        ELSE LET b == CHOOSE i \in bars : \A j \in bars : i <= j
             IN  <<SubSeq(s, 1, b - 1)>> \o SplitPipe(SubSeq(s, b + 1, Len(s)))

MD == <<".", "m", "d">>
MARKDOWN == <<".", "m", "a", "r", "k", "d", "o", "w", "n">>

(* ------------------------------------------------------------------ *)
(* The notes of the working folder                                    *)
(* ------------------------------------------------------------------ *)

\* AnkiHelper.not_included_tag
not_included_tag == "not_included"

\* tokens of a content block: plain text, an inline #tag, a [[...]] reference,
\* a ![[...]] reference, a line that holds --- alone
Text == [k |-> "text", v |-> <<>>]
Tag(t) == [k |-> "tag", v |-> <<t>>]
Link(inner) == [k |-> "link", v |-> inner]
Embed(inner) == [k |-> "embed", v |-> inner]
Sep == [k |-> "sep", v |-> <<>>]

PNG == <<".", "p", "n", "g">>
PDF == <<".", "p", "d", "f">>

\* a note's text: fm says how the text opens ("none": no metadata block, "ok":
\* a well-formed block, "unclosed": an opening delimiter that is never closed,
\* "malformed": delimiters around text that is not valid YAML), fmtags is the
\* block's tags entry, pad says whether blank space surrounds the text
Note(fm, hastags, fmtags, pad, body) ==
    [fm |-> fm, hastags |-> hastags, fmtags |-> fmtags, pad |-> pad, body |-> body]

NoteA == Note("none", FALSE, <<>>, TRUE,
              <<Tag("todo"), Text, Link(<<" ", "B", " ", "|", "x">>), Link(<<"a">>),
                Embed(<<"d">> \o PNG), Embed(<<"e">> \o PNG \o <<"|", "p">>)>>)
NoteB == Note("ok", TRUE, <<"topic", "k">>, FALSE,
              <<Tag("topic"), Link(<<"A">>), Link(<<"A">> \o MD), Text, Link(<<"C">>),
                Link(<<"G", "#", "h", "g", "|", "g">>), Embed(<<"d">> \o PDF),
                Sep, Tag("n"), Link(<<"E">>)>>)
NoteC == Note("ok", TRUE, <<not_included_tag>>, FALSE, <<Text, Link(<<"D">>)>>)
NoteD == Note("malformed", FALSE, <<>>, FALSE, <<Text, Link(<<"A">>)>>)
NoteE == Note("unclosed", FALSE, <<>>, FALSE, <<Text>>)

\* os.listdir(folder_path), in the order the loop of
\* read_file_case_insensitive_simple sees it; F.md is a directory
Listing ==
    << [name |-> <<"A">> \o MD,       isfile |-> TRUE,  content |-> NoteA],
       [name |-> <<"B">> \o MD,       isfile |-> TRUE,  content |-> NoteB],
       [name |-> <<"C">> \o MARKDOWN, isfile |-> TRUE,  content |-> NoteC],
       [name |-> <<"D">> \o MD,       isfile |-> TRUE,  content |-> NoteD],
       [name |-> <<"E", ".", "M", "D">>, isfile |-> TRUE, content |-> NoteE],
       [name |-> <<"F">> \o MD,       isfile |-> FALSE, content |-> NoteE],
       [name |-> <<"G">> \o MD,       isfile |-> TRUE,  content |-> NoteE] >>

\* the entries of the listing that the loop's test accepts for filename
Matches(filename) ==
    {i \in 1..Len(Listing) :
        /\ SplitExt(Listing[i].name)[2] \in {MD, MARKDOWN}
        /\ Lower(SplitExt(Listing[i].name)[1]) = Lower(filename)}

\* read_file_case_insensitive_simple(filename, folder_path): the content of the
\* first entry that matches; IOError when that entry is no regular file;
\* FileNotFoundError when no entry matches
read_file_case_insensitive_simple(filename) ==
    LET ms == Matches(filename)
    IN  IF ms = {} THEN [status |-> "FileNotFoundError", content |-> NoteE]
        ELSE LET i == CHOOSE m \in ms : \A n \in ms : m <= n
             IN  IF Listing[i].isfile
                 THEN [status |-> "ok", content |-> Listing[i].content]
                 ELSE [status |-> "IOError", content |-> NoteE]

(* ------------------------------------------------------------------ *)
(* Card synthesis                                                     *)
(* ------------------------------------------------------------------ *)

\* the card_prefix the helper is constructed with
card_prefix == <<"x">>

\* the extensions the pattern of extract_and_replace_images recognizes (the
\* model's alphabet spells one of them)
ImageExts == {PNG}

\* separate_frontmatter(content) is frontmatter.parse(content): the text is
\* stripped; without an opening delimiter, or with one that is never closed,
\* the metadata is empty and the content block is the stripped text; a closed
\* block is loaded as YAML, which raises when the block is not valid YAML
separate_frontmatter(content) ==
    CASE content.fm = "malformed" ->
            [raised |-> TRUE, hastags |-> FALSE, tags |-> <<>>, block |-> content]
      [] content.fm = "ok" ->
            [raised |-> FALSE, hastags |-> content.hastags, tags |-> content.fmtags,
             block |-> Note("none", FALSE, <<>>, FALSE, content.body)]
      [] OTHER ->
            [raised |-> FALSE, hastags |-> FALSE, tags |-> <<>>,
             block |-> [content EXCEPT !.pad = FALSE]]

\* extract_tags_frontmatter(frontmatter_parsed): the tags entry, as a set once
\* card.tags.update() has taken it; empty when there is no entry
extract_tags_frontmatter(parsed) ==
    IF parsed.hastags THEN {parsed.tags[i] : i \in 1..Len(parsed.tags)} ELSE {}

\* \w for the model's alphabet
IsWordChar(c) == c \notin {" ", "|", "#", ".", "-"}

\* the longest run of word characters of s from position i on
RECURSIVE WordRun(_, _)
WordRun(s, i) ==
    IF i <= Len(s) /\ IsWordChar(s[i]) THEN s[i] \o WordRun(s, i + 1) ELSE ""

\* re.findall(r'#(\w+)', s) within the brackets of a reference
HashTags(s) ==
    {WordRun(s, i + 1) : i \in {j \in 1..(Len(s) - 1) : s[j] = "#" /\ IsWordChar(s[j + 1])}}

\* extract_tags_raw_content without the text inside references
tags_outside_references(block) ==
    {block.body[i].v[1] : i \in {j \in 1..Len(block.body) : block.body[j].k = "tag"}}

\* extract_tags_raw_content(content): re.findall(r'#(\w+)', content), over
\* the whole content block as it is before any rewriting
extract_tags_raw_content(block) ==
    {block.body[i].v[1] : i \in {j \in 1..Len(block.body) : block.body[j].k = "tag"}}
    \cup UNION {HashTags(block.body[i].v) :
                i \in {j \in 1..Len(block.body) : block.body[j].k \in {"link", "embed"}}}

\* whether ![[inner]] matches image_pattern: the path before the first pipe
\* ends in a recognized extension after at least one more character
IsImage(inner) ==
    LET path == SplitPipe(inner)[1]
    IN  \E e \in ImageExts : EndsWith(path, e) /\ Len(path) > Len(e)

\* extract_and_replace_images when it replaces nothing, which is what the
\* pass over the references sees when it runs first
images_left_alone(body) == body

\* extract_and_replace_images(staged_content): every match of image_pattern
\* becomes the placeholder
extract_and_replace_images(body) ==
    [i \in 1..Len(body) |->
        IF body[i].k = "embed" /\ IsImage(body[i].v)
        THEN [k |-> "image_placeholder", v |-> <<>>]
        ELSE body[i]]

\* _extract_and_replace_helper: cleaned_match, the target it reports
cleaned_match(inner) == Strip(SplitPipe(inner)[1])

\* _extract_and_replace_helper: alias_match, the text it underlines
alias_match(inner) ==
    IF Len(SplitPipe(inner)) > 1 THEN Strip(SplitPipe(inner)[2]) ELSE cleaned_match(inner)

\* the tokens obsidian_link_pattern matches: [[...]], also after a "!"
IsRef(tok) == tok.k \in {"link", "embed"}

\* the targets extract_and_replace_obsidian_links reports, left to right
RECURSIVE LinkTargets(_)
LinkTargets(body) ==
    IF body = <<>> THEN <<>>
    ELSE (IF IsRef(Head(body)) THEN <<cleaned_match(Head(body).v)>> ELSE <<>>)
         \o LinkTargets(Tail(body))

\* content.split('\n---\n', 1)[0]: the tokens before the first delimiter line
RECURSIVE BeforeSep(_)
BeforeSep(body) ==
    IF body = <<>> \/ Head(body).k = "sep" THEN <<>>
    ELSE <<Head(body)>> \o BeforeSep(Tail(body))

\* extract_and_replace_obsidian_links(content): the rewritten content
extract_and_replace_obsidian_links(body) ==
    BeforeSep([i \in 1..Len(body) |->
        CASE body[i].k = "link" -> [k |-> "ins", v |-> alias_match(body[i].v)]
          [] body[i].k = "embed" -> [k |-> "bang_ins", v |-> alias_match(body[i].v)]
          [] OTHER -> body[i]])

\* CardOf when the content is cut at the first --- line before the pass over
\* the references
truncated_before_references(filename, tags, staged) ==
    IF not_included_tag \in tags
    THEN [raised |-> FALSE, found |-> <<>>,
          card |-> [front |-> card_prefix \o filename,
                    back |-> [kind |-> "skip_notice", src |-> <<>>],
                    tags |-> tags, should_skip |-> TRUE]]
    ELSE [raised |-> FALSE, found |-> LinkTargets(BeforeSep(staged)),
          card |-> [front |-> card_prefix \o SplitExt(filename)[1],
                    back |-> [kind |-> "html",
                              src |-> extract_and_replace_obsidian_links(staged)],
                    tags |-> tags, should_skip |-> FALSE]]

\* CardOf when the rewriting passes run before the test of the skip tag
skip_after_rewriting(filename, tags, staged) ==
    [raised |-> FALSE, found |-> LinkTargets(staged),
     card |-> IF not_included_tag \in tags
              THEN [front |-> card_prefix \o filename,
                    back |-> [kind |-> "skip_notice", src |-> <<>>],
                    tags |-> tags, should_skip |-> TRUE]
              ELSE [front |-> card_prefix \o SplitExt(filename)[1],
                    back |-> [kind |-> "html",
                              src |-> extract_and_replace_obsidian_links(staged)],
                    tags |-> tags, should_skip |-> FALSE]]

\* create_card(filename, content): the card, the targets reported to
\* update_md_files_trackers on the way, and whether an exception left it
\* create_card, from the tags on: the skip card, or the card with the
\* rewritten content as its back
CardOf(filename, tags, staged) ==
    IF not_included_tag \in tags
    THEN [raised |-> FALSE, found |-> <<>>,
          card |-> [front |-> card_prefix \o filename,
                    back |-> [kind |-> "skip_notice", src |-> <<>>],
                    tags |-> tags, should_skip |-> TRUE]]
    ELSE [raised |-> FALSE, found |-> LinkTargets(staged),
          card |-> [front |-> card_prefix \o SplitExt(filename)[1],
                    back |-> [kind |-> "html",
                              src |-> extract_and_replace_obsidian_links(staged)],
                    tags |-> tags, should_skip |-> FALSE]]

\* create_card, once the text is split
CardFrom(filename, parsed) ==
    IF parsed.raised
    THEN [raised |-> TRUE, found |-> <<>>,
          card |-> [front |-> <<>>, back |-> [kind |-> "none", src |-> <<>>],
                    tags |-> {}, should_skip |-> FALSE]]
    ELSE CardOf(filename,
                extract_tags_frontmatter(parsed)
                    \cup extract_tags_raw_content(parsed.block),
                extract_and_replace_images(parsed.block.body))

create_card(filename, content) == CardFrom(filename, separate_frontmatter(content))

(* ------------------------------------------------------------------ *)
(* The store behind AnkiConnect and the submission of a card          *)
(* ------------------------------------------------------------------ *)

\* the deck the helper is constructed with, and another deck of the collection
deck_name == "deck"
other_deck == "other"

\* Optional[str] None for a note id; the store's ids are positions, from 1
None == 0

\* the error AnkiConnect answers addNote with when the front exists already
DuplicateError == "cannot create note because it is a duplicate"
OtherError == "some other error"
NoError == "null"

\* what can come back from one request: the store's answer ("ok"), an answer
\* that carries another error string ("error"), no answer at all, which
\* requests raises as a RequestException ("transport"), or an answer that is no
\* JSON object, which raises outside RequestException ("badjson")
Replies == {"ok", "error", "transport", "badjson"}

\* the store's answer to findNotes deck:<deck_name> front:"<front>": the ids
\* of the deck's notes with that front, oldest first
FindNotes(store, front) ==
    SelectSeq([i \in 1..Len(store) |-> i],
              LAMBDA i : store[i].deck = deck_name /\ store[i].front = front)

\* check_card_existence without its case for more than one match
lookup_rejects_many(card, reply, store) ==
    IF reply = "ok" /\ Len(FindNotes(store, card.front)) = 1
    THEN FindNotes(store, card.front)[1]
    ELSE None

\* check_card_existence(filename, card): the first id of the answer; None
\* when the answer is empty and when anything was raised on the way
check_card_existence(card, reply, store) ==
    IF reply = "ok" /\ FindNotes(store, card.front) # <<>>
    THEN FindNotes(store, card.front)[1]
    ELSE None

\* note_payload without the deletion of Front on an update
payload_keeps_front(card, existing_card_id) ==
    [action |-> IF existing_card_id # None THEN "updateNote" ELSE "addNote",
     id |-> existing_card_id, hasFront |-> TRUE, front |-> card.front,
     back |-> card.back, tags |-> card.tags]

\* the request post_card_to_deck_v2 builds once the lookup has answered
note_payload(card, existing_card_id) ==
    IF existing_card_id # None
    THEN [action |-> "updateNote", id |-> existing_card_id, hasFront |-> FALSE,
          front |-> <<>>, back |-> card.back, tags |-> card.tags]
    ELSE [action |-> "addNote", id |-> None, hasFront |-> TRUE,
          front |-> card.front, back |-> card.back, tags |-> card.tags]

FindRequest(card) ==
    [action |-> "findNotes", id |-> None, hasFront |-> TRUE, front |-> card.front,
     back |-> [kind |-> "none", src |-> <<>>], tags |-> {}]

\* the store's own answer to a write: addNote refuses a front the collection
\* holds already, in any deck; updateNote replaces the fields and tags it is sent
StoreError(store, req) ==
    CASE req.action = "addNote" /\ \E i \in 1..Len(store) : store[i].front = req.front
            -> DuplicateError
      [] req.action = "updateNote" /\ req.id \notin 1..Len(store) -> OtherError
      [] OTHER -> NoError

StoreApply(store, req) ==
    CASE StoreError(store, req) # NoError -> store
      [] req.action = "addNote" ->
            Append(store, [front |-> req.front, back |-> req.back, tags |-> req.tags,
                           deck |-> deck_name])
      [] OTHER ->
            [store EXCEPT ![req.id] =
                [front |-> IF req.hasFront THEN req.front ELSE @.front,
                 back |-> req.back, tags |-> req.tags, deck |-> @.deck]]

\* result['error'] as post_card_to_deck_v2 reads it
ReplyError(store, req, reply) ==
    IF reply = "error" THEN OtherError ELSE StoreError(store, req)

\* ResponseOf without the case of the duplicate error
response_no_duplicate_case(wreply, err) ==
    CASE wreply = "transport" -> "FAILED"
      [] wreply = "badjson" -> "RAISED"
      [] err # NoError -> "FAILED"
      [] OTHER -> "SUCCESS"

\* the value post_card_to_deck_v2 returns for a reply whose error is err
\* ("RAISED": an exception left the method)
ResponseOf(wreply, err) ==
    CASE wreply = "transport" -> "FAILED"
      [] wreply = "badjson" -> "RAISED"
      [] err = DuplicateError -> "SKIPPED"
      [] err # NoError -> "FAILED"
      [] OTHER -> "SUCCESS"

\* post_card_to_deck_v2, from the request on
Post(card, upsert, existing_card_id, req, wreply, store) ==
    [calls |-> (IF upsert THEN <<FindRequest(card)>> ELSE <<>>) \o <<req>>,
     existing |-> existing_card_id,
     error |-> IF wreply \in {"ok", "error"} THEN ReplyError(store, req, wreply)
               ELSE NoError,
     store |-> IF wreply = "ok" THEN StoreApply(store, req) ELSE store,
     response |-> ResponseOf(wreply, ReplyError(store, req, wreply))]

\* the id post_card_to_deck_v2 holds once the lookup, if any, has answered
existing_card_id(card, upsert, lreply, store) ==
    IF upsert THEN check_card_existence(card, lreply, store) ELSE None

PostWith(card, upsert, existing, wreply, store) ==
    Post(card, upsert, existing, note_payload(card, existing), wreply, store)

\* post_card_to_deck_v2(card): the requests sent, the store afterwards and the
\* value returned
post_card_to_deck_v2(card, upsert, lreply, wreply, store) ==
    PostWith(card, upsert, existing_card_id(card, upsert, lreply, store), wreply, store)

\* process_card_submission without the test of should_skip
submission_ignores_should_skip(card, skip_submission, upsert, lreply, wreply, store) ==
    IF skip_submission
    THEN [calls |-> <<>>, existing |-> None, error |-> NoError, store |-> store,
          response |-> "SKIPPED"]
    ELSE post_card_to_deck_v2(card, upsert, lreply, wreply, store)

\* process_card_submission(card)
process_card_submission(card, skip_submission, upsert, lreply, wreply, store) ==
    IF card.should_skip \/ skip_submission
    THEN [calls |-> <<>>, existing |-> None, error |-> NoError, store |-> store,
          response |-> "SKIPPED"]
    ELSE post_card_to_deck_v2(card, upsert, lreply, wreply, store)

(* ------------------------------------------------------------------ *)
(* State                                                              *)
(* ------------------------------------------------------------------ *)

VARIABLES
    initial_md_files,   \* the seed list the helper is constructed with
    seeds_given,        \* whether initial_md_files was passed (it defaults to None)
    folder_exists,      \* os.path.exists(self.folder_path)
    upsert,             \* self.upsert
    skip_submission,    \* self.skip_submission
    md_files_tracked,   \* self.md_files_tracked
    next_md_files,      \* self.next_md_files
    new_md_files,       \* self.new_md_files, the batch run() iterates
    idx,                \* the position of the for loop in new_md_files
    pc,                 \* where run() is: "while", "for" or "done"; "raised"
                        \* when __init__ raised and there is no helper to run
    success_count,      \* self.success_count
    failed_count,       \* self.failed_count
    skipped_count,      \* self.skipped_count
    store,              \* the notes of the collection behind AnkiConnect
    visits,             \* what this run did for each filename it took, in order
    faults,             \* the store replies that were not the store's answer
    runNo,              \* which run of the program this is
    prev                \* the visits and the final store of the run before

vars == <<initial_md_files, seeds_given, folder_exists, upsert, skip_submission, md_files_tracked, next_md_files,
          new_md_files, idx, pc, success_count, failed_count, skipped_count, store,
          visits, faults, runNo, prev>>

config == <<initial_md_files, seeds_given, folder_exists, upsert, skip_submission>>
counts == <<success_count, failed_count, skipped_count>>

StoredNote(front, deck) ==
    [front |-> front, back |-> [kind |-> "html", src |-> <<Text>>], tags |-> {},
     deck |-> deck]

EmptyStore == <<>>

\* a collection that holds the card of A in the deck and a card with the front
\* of B in another deck
Preloaded ==
    << StoredNote(card_prefix \o <<"A">>, deck_name),
       StoredNote(card_prefix \o <<"B">>, other_deck) >>

\* a collection whose deck holds two notes with the front of A's card
Duplicated ==
    << StoredNote(card_prefix \o <<"B">>, other_deck),
       StoredNote(card_prefix \o <<"A">>, deck_name),
       StoredNote(card_prefix \o <<"A">>, deck_name) >>

Setup(seedlist, up, skip, st) ==
    [seeds |-> seedlist, given |-> TRUE, folder |-> TRUE, upsert |-> up,
     skip_submission |-> skip, store |-> st]

\* a construction with an empty or no seed list, or without the folder
SetupOf(seedlist, given, folder) ==
    [seeds |-> seedlist, given |-> given, folder |-> folder, upsert |-> TRUE,
     skip_submission |-> FALSE, store |-> EmptyStore]

\* the arguments and the collection of the executions the model covers
Setups ==
    { Setup(<< <<"A">> >>, TRUE, FALSE, EmptyStore),
      Setup(<< <<"A">> >>, TRUE, FALSE, Duplicated),
      Setup(<< <<"D">>, <<"F">>, <<"B">> >>, FALSE, FALSE, Preloaded),
      Setup(<< <<"C">>, <<"C">>, <<"c">> >>, FALSE, FALSE, EmptyStore),
      Setup(<< <<"D">>, <<"F">>, <<"B">>, <<"G">> >>, TRUE, TRUE, EmptyStore),
      SetupOf(<<>>, TRUE, TRUE),
      SetupOf(<<>>, FALSE, TRUE),
      SetupOf(<< <<"A">> >>, TRUE, FALSE) }

\* the seed lists of the setups
SeedLists == {s.seeds : s \in Setups}

(* ------------------------------------------------------------------ *)
(* The traversal trackers                                             *)
(* ------------------------------------------------------------------ *)

\* update_md_files_trackers without its membership test
update_always(tr, filename) ==
    [tracked |-> tr.tracked \cup {filename}, next |-> Append(tr.next, filename)]

\* update_md_files_trackers without the addition to md_files_tracked
update_without_marking(tr, filename) ==
    IF filename \notin tr.tracked
    THEN [tracked |-> tr.tracked, next |-> Append(tr.next, filename)]
    ELSE tr

\* update_md_files_trackers with the filename put in front of the list
update_prepends(tr, filename) ==
    IF filename \notin tr.tracked
    THEN [tracked |-> tr.tracked \cup {filename}, next |-> <<filename>> \o tr.next]
    ELSE tr

\* update_md_files_trackers(filename) on the pair of trackers
update_md_files_trackers(tr, filename) ==
    IF filename \notin tr.tracked
    THEN [tracked |-> tr.tracked \cup {filename}, next |-> Append(tr.next, filename)]
    ELSE tr

\* the calls of update_md_files_trackers for a sequence of filenames, in order
RECURSIVE TrackAll(_, _)
TrackAll(tr, filenames) ==
    IF filenames = <<>> THEN tr
    ELSE TrackAll(update_md_files_trackers(tr, Head(filenames)), Tail(filenames))

\* __init__: the trackers once every seed was reported
Constructed(seedlist) == TrackAll([tracked |-> {}, next |-> <<>>], seedlist)

\* _check_folder_existance(): whether it raises FileNotFoundError
check_folder_existance(exists) == ~exists

\* whether __init__ raises: iterating over None raises TypeError, which the
\* handler logs and raises again; an empty list is iterated without a call;
\* then the folder is checked
InitRaises(given, exists) == ~given \/ check_folder_existance(exists)

Init ==
    /\ \E s \in Setups :
          /\ initial_md_files = s.seeds
          /\ seeds_given = s.given
          /\ folder_exists = s.folder
          /\ upsert = s.upsert
          /\ skip_submission = s.skip_submission
          /\ store = s.store
    /\ md_files_tracked = Constructed(initial_md_files).tracked
    /\ next_md_files = Constructed(initial_md_files).next
    /\ new_md_files = next_md_files
    /\ idx = 1
    /\ pc = IF InitRaises(seeds_given, folder_exists) THEN "raised" ELSE "while"
    /\ success_count = 0
    /\ failed_count = 0
    /\ skipped_count = 0
    /\ visits = <<>>
    /\ faults = 0
    /\ runNo = 1
    /\ prev = [visits |-> <<>>, store |-> <<>>]

(* ------------------------------------------------------------------ *)
(* The filenames a run can meet                                       *)
(* ------------------------------------------------------------------ *)

\* the filenames create_card reports for a filename's note
RefsOf(filename) ==
    IF read_file_case_insensitive_simple(filename).status = "ok"
    THEN {create_card(filename, read_file_case_insensitive_simple(filename).content).found[i] :
            i \in 1..Len(create_card(filename,
                             read_file_case_insensitive_simple(filename).content).found)}
    ELSE {}

RECURSIVE Closure(_)
Closure(S) ==
    IF (S \cup UNION {RefsOf(f) : f \in S}) = S THEN S
    ELSE Closure(S \cup UNION {RefsOf(f) : f \in S})

\* the distinct filenames reachable from a seed list along the references
ReachableFrom == [sl \in SeedLists |-> Closure({sl[i] : i \in 1..Len(sl)})]

\* every filename a run from one of the seed lists can take
Filenames == UNION {ReachableFrom[sl] : sl \in SeedLists}

\* what reading and create_card give for each of them: both depend on the
\* filename and the folder alone, so they are tabulated once
ReadOf == [f \in Filenames |-> read_file_case_insensitive_simple(f)]

CardOfFile == [f \in Filenames |-> create_card(f, ReadOf[f].content)]

(* ------------------------------------------------------------------ *)
(* run()                                                              *)
(* ------------------------------------------------------------------ *)

NoCard ==
    [front |-> <<>>, back |-> [kind |-> "none", src |-> <<>>], tags |-> {},
     should_skip |-> FALSE]

\* TallyOf without the increment of the inner handler
tally_misses_not_found(how, response) ==
    CASE how = "FileNotFoundError" -> "none"
      [] how # "returned" -> "failed"
      [] response = "SUCCESS" -> "success"
      [] response = "FAILED" -> "failed"
      [] OTHER -> "skipped"

\* the counter the body of the for loop increments: the inner handler counts a
\* FileNotFoundError as failed, the outer handler counts every other exception
\* as failed, and a returned response is matched
TallyOf(how, response) ==
    CASE how = "FileNotFoundError" -> "failed"
      [] how # "returned" -> "failed"
      [] response = "SUCCESS" -> "success"
      [] response = "FAILED" -> "failed"
      [] OTHER -> "skipped"

\* one pass of the body of the for loop for filename, given what the store
\* replies to the lookup (lreply) and to the write (wreply): what was read and
\* built, the targets reported, the requests sent, the store afterwards, how
\* the body ended and the counter it incremented
HowEnded(rd, cc, sub) ==
    CASE rd.status # "ok" -> rd.status
      [] cc.raised -> "create_card raised"
      [] sub.response = "RAISED" -> "submission raised"
      [] OTHER -> "returned"

BodyRecord(filename, lreply, wreply, rd, cc, sub, how, built) ==
    [filename |-> filename,
     fm |-> IF rd.status = "ok" THEN rd.content.fm ELSE "none",
     how |-> how,
     built |-> built,
     card |-> IF built THEN cc.card ELSE NoCard,
     found |-> IF built THEN cc.found ELSE <<>>,
     calls |-> IF built THEN sub.calls ELSE <<>>,
     lreply |-> lreply,
     wreply |-> wreply,
     existing |-> IF built THEN sub.existing ELSE None,
     error |-> IF built THEN sub.error ELSE NoError,
     response |-> IF how = "returned" THEN sub.response ELSE "none",
     tally |-> TallyOf(how, sub.response),
     store |-> IF built THEN sub.store ELSE store]

BodySubmitted(filename, lreply, wreply, rd, cc, sub) ==
    BodyRecord(filename, lreply, wreply, rd, cc, sub, HowEnded(rd, cc, sub),
               rd.status = "ok" /\ ~cc.raised)

BodyBuilt(filename, lreply, wreply, rd, cc) ==
    BodySubmitted(filename, lreply, wreply, rd, cc,
                  process_card_submission(cc.card, skip_submission, upsert, lreply,
                                          wreply, store))

Body(filename, lreply, wreply) ==
    BodyBuilt(filename, lreply, wreply, ReadOf[filename], CardOfFile[filename])

\* AfterBody when an exception is not handled in the loop: it ends run()
exception_ends_run(how) == IF how = "returned" THEN "for" ELSE "done"

\* where run() is after the body: both handlers leave it in the for loop
AfterBody(how) == "for"

\* the state after the pass b of the body
Took(b, tr) ==
    /\ md_files_tracked' = tr.tracked
    /\ next_md_files' = tr.next
    /\ store' = b.store
    /\ success_count' = success_count + (IF b.tally = "success" THEN 1 ELSE 0)
    /\ failed_count' = failed_count + (IF b.tally = "failed" THEN 1 ELSE 0)
    /\ skipped_count' = skipped_count + (IF b.tally = "skipped" THEN 1 ELSE 0)
    /\ visits' = Append(visits, [b EXCEPT !.store = <<>>])
    /\ idx' = idx + 1
    /\ pc' = AfterBody(b.how)
    /\ UNCHANGED <<config, new_md_files, runNo, prev>>

TakeNote(b) ==
    \E tr \in {TrackAll([tracked |-> md_files_tracked, next |-> next_md_files],
                        b.found)} :
        Took(b, tr)

InFor == pc = "for" /\ idx <= Len(new_md_files)

\* how many of the replies are not the store's own answer
Cost(lreply, wreply) ==
    (IF lreply = "ok" THEN 0 ELSE 1) + (IF wreply = "ok" THEN 0 ELSE 1)

\* while self.new_md_files: the next batch's list is started, or the loop ends
WhileHead ==
    /\ pc = "while"
    /\ IF new_md_files # <<>>
       THEN /\ next_md_files' = <<>>
            /\ idx' = 1
            /\ pc' = "for"
       ELSE /\ pc' = "done"
            /\ UNCHANGED <<next_md_files, idx>>
    /\ UNCHANGED <<config, md_files_tracked, new_md_files, counts, store, visits,
                   faults, runNo, prev>>

EndedNoteNotFound(b) == b.how = "FileNotFoundError" /\ TakeNote(b)

EndedNoteRaised(b) == b.how \in {"IOError", "create_card raised"} /\ TakeNote(b)

EndedNoteNotPosted(b) == b.how = "returned" /\ b.calls = <<>> /\ TakeNote(b)

EndedNotePosted(b, lreply, wreply) ==
    /\ b.calls # <<>>
    /\ faults + Cost(lreply, wreply) <= MaxFaults
    /\ faults' = faults + Cost(lreply, wreply)
    /\ TakeNote(b)

\* the body, ended by the inner handler: no file matches the filename
NoteNotFound ==
    /\ InFor
    /\ \E b \in {Body(new_md_files[idx], "ok", "ok")} : EndedNoteNotFound(b)
    /\ UNCHANGED faults

\* the body, ended by the outer handler before any request: the entry is no
\* regular file, or create_card raised
NoteRaised ==
    /\ InFor
    /\ \E b \in {Body(new_md_files[idx], "ok", "ok")} : EndedNoteRaised(b)
    /\ UNCHANGED faults

\* the body for a card that process_card_submission does not post
NoteNotPosted ==
    /\ InFor
    /\ \E b \in {Body(new_md_files[idx], "ok", "ok")} : EndedNoteNotPosted(b)
    /\ UNCHANGED faults

\* the body for a card that is posted, whatever the store replies
NotePosted ==
    /\ InFor
    /\ \E lreply \in (IF upsert THEN Replies ELSE {"ok"}), wreply \in Replies :
          \E b \in {Body(new_md_files[idx], lreply, wreply)} :
              EndedNotePosted(b, lreply, wreply)

\* the for loop is exhausted: self.new_md_files = self.next_md_files
ForEnd ==
    /\ pc = "for"
    /\ idx > Len(new_md_files)
    /\ new_md_files' = next_md_files
    /\ pc' = "while"
    /\ UNCHANGED <<config, md_files_tracked, next_md_files, idx, counts, store,
                   visits, faults, runNo, prev>>

\* the program is started again on the same folder, with the same arguments,
\* against the store as the run before left it
Rerun ==
    /\ pc = "done"
    /\ runNo < MaxRuns
    /\ runNo' = runNo + 1
    /\ prev' = [visits |-> visits, store |-> store]
    /\ md_files_tracked' = Constructed(initial_md_files).tracked
    /\ next_md_files' = Constructed(initial_md_files).next
    /\ new_md_files' = next_md_files'
    /\ idx' = 1
    /\ pc' = "while"
    /\ success_count' = 0
    /\ failed_count' = 0
    /\ skipped_count' = 0
    /\ visits' = <<>>
    /\ UNCHANGED <<config, store, faults>>

RunStep ==
    \/ WhileHead
    \/ NoteNotFound
    \/ NoteRaised
    \/ NoteNotPosted
    \/ NotePosted
    \/ ForEnd

Next == RunStep \/ Rerun

Spec == Init /\ [][Next]_vars

\* run() is one thread that keeps going until its while loop ends
LiveSpec == Spec /\ WF_vars(RunStep)

(* ------------------------------------------------------------------ *)
(* Notions the claims are stated in                                   *)
(* ------------------------------------------------------------------ *)

\* the identifier a filename stands for: its case-folded form without a
\* markdown extension
NoteIdentifier(filename) ==
    Lower(IF SplitExt(filename)[2] \in {MD, MARKDOWN} THEN SplitExt(filename)[1]
          ELSE filename)

Visited == {visits[i].filename : i \in 1..Len(visits)}

\* the visit the step just made, when it made one
VisitMade == Len(visits') = Len(visits) + 1
LastVisit == visits'[Len(visits')]

Reachable == ReachableFrom[initial_md_files]

(* ------------------------------------------------------------------ *)
(* Claims                                                             *)
(* ------------------------------------------------------------------ *)

\* C1: run() takes each note identifier once: no two visits of a run are for
\* filenames with the same case-folded, extension-stripped form.
C1_EachIdentifierOnce ==
    \A i, j \in 1..Len(visits) :
        NoteIdentifier(visits[i].filename) = NoteIdentifier(visits[j].filename) => i = j

C3_Step ==
    (/\ VisitMade
     /\ upsert
     /\ ~skip_submission
     /\ LastVisit.built
     /\ ~LastVisit.card.should_skip)
    => /\ Len(LastVisit.calls) = 2
       /\ LastVisit.calls[1].action = "findNotes"
       /\ LastVisit.calls[1].front = LastVisit.card.front
       /\ LastVisit.existing # None
            => /\ LastVisit.existing \in 1..Len(store)
               /\ store[LastVisit.existing].front = LastVisit.card.front
               /\ LastVisit.calls[2].action = "updateNote"
               /\ LastVisit.calls[2].id = LastVisit.existing
               /\ ~LastVisit.calls[2].hasFront
               /\ Len(store') = Len(store)
               /\ \A i \in 1..Len(store) :
                    /\ store'[i].front = store[i].front
                    /\ i # LastVisit.existing => store'[i] = store[i]
               /\ LastVisit.response = "SUCCESS"
                    => /\ store'[LastVisit.existing].back = LastVisit.card.back
                       /\ store'[LastVisit.existing].tags = LastVisit.card.tags
       /\ LastVisit.existing = None
            => /\ LastVisit.calls[2].action = "addNote"
               /\ LastVisit.calls[2].hasFront
               /\ LastVisit.calls[2].front = LastVisit.card.front

C3_LookupThenOneWrite == [][C3_Step]_vars

\* C3 witness: one card was updated under the id its lookup gave and another
\* card, whose lookup gave none, was added.
C3_Witness ==
    /\ upsert
    /\ \E i, j \in 1..Len(visits) :
          /\ visits[i].existing # None
          /\ visits[i].response = "SUCCESS"
          /\ visits[i].calls[2].action = "updateNote"
          /\ visits[j].existing = None
          /\ visits[j].response = "SUCCESS"
          /\ visits[j].calls[2].action = "addNote"

\* the cards the run before submitted with success
SucceededBefore ==
    {prev.visits[j].card.front :
        j \in {k \in 1..Len(prev.visits) : prev.visits[k].tally = "success"}}

\* C4: in a second run in upsert mode over the same notes, every card that
\* succeeded in the first run is written as an updateNote, never as an
\* addNote, and the store ends with those cards as the first run left them
\* (a card the first run failed to write may still be added by the second).
C4_RerunOnlyUpdates ==
    (runNo > 1 /\ upsert /\ ~skip_submission)
    => /\ \A i \in 1..Len(visits) :
            (visits[i].built /\ visits[i].card.front \in SucceededBefore)
            => /\ visits[i].calls # <<>>
               /\ visits[i].calls[Len(visits[i].calls)].action = "updateNote"
       /\ pc = "done"
            => \A k \in 1..Len(prev.store) :
                  prev.store[k].front \in SucceededBefore
                  => k <= Len(store) /\ store[k] = prev.store[k]

\* the tags a note declares in the tags entry of its metadata block
MetadataTags(content) ==
    IF content.fm = "ok" /\ content.hastags
    THEN {content.fmtags[i] : i \in 1..Len(content.fmtags)} ELSE {}

\* the tags a note declares inline, anywhere in its content block as written
InlineTags(content) ==
    {content.body[i].v[1] :
        i \in {j \in 1..Len(content.body) : content.body[j].k = "tag"}}
    \cup UNION {HashTags(content.body[i].v) :
                i \in {j \in 1..Len(content.body) : content.body[j].k \in {"link", "embed"}}}

\* the tags a note declares, in its metadata block or inline
DeclaredTags(content) == MetadataTags(content) \cup InlineTags(content)

\* C5: a note that declares the tag not_included gives a card with
\* should_skip and the skip notice as its back, sends no request to the
\* store, and adds one to skipped_count and nothing to the other counters.
C5_Step ==
    (/\ VisitMade
     /\ LastVisit.built
     /\ not_included_tag \in DeclaredTags(ReadOf[LastVisit.filename].content))
    => /\ LastVisit.card.should_skip
       /\ LastVisit.card.back = [kind |-> "skip_notice", src |-> <<>>]
       /\ LastVisit.calls = <<>>
       /\ store' = store
       /\ skipped_count' = skipped_count + 1
       /\ success_count' = success_count
       /\ failed_count' = failed_count

C5_SkipTagSendsNothing == [][C5_Step]_vars

\* C5 witness: the note C, which declares not_included, was taken in a run
\* that submits cards.
C5_Witness ==
    /\ ~skip_submission
    /\ skipped_count >= 1
    /\ \E i \in 1..Len(visits) :
          visits[i].filename = <<"C">> /\ visits[i].card.should_skip

\* C6: when the store answers an addNote with the duplicate error the note
\* ends SKIPPED and skipped_count grows, not failed_count; with any other
\* error it ends FAILED and failed_count grows.
C6_Step ==
    (/\ VisitMade
     /\ LastVisit.calls # <<>>
     /\ LastVisit.calls[Len(LastVisit.calls)].action = "addNote"
     /\ LastVisit.wreply \in {"ok", "error"}
     /\ LastVisit.error # NoError)
    => IF LastVisit.error = DuplicateError
       THEN /\ LastVisit.response = "SKIPPED"
            /\ skipped_count' = skipped_count + 1
            /\ failed_count' = failed_count
            /\ success_count' = success_count
       ELSE /\ LastVisit.response = "FAILED"
            /\ failed_count' = failed_count + 1
            /\ skipped_count' = skipped_count
            /\ success_count' = success_count

C6_DuplicateIsSkipped == [][C6_Step]_vars

\* C6 witness: one addNote was answered with the duplicate error and counted
\* as skipped, another with a different error and counted as failed.
C6_Witness ==
    \E i, j \in 1..Len(visits) :
        /\ visits[i].calls # <<>>
        /\ visits[i].calls[Len(visits[i].calls)].action = "addNote"
        /\ visits[i].error = DuplicateError
        /\ visits[i].tally = "skipped"
        /\ visits[j].calls # <<>>
        /\ visits[j].calls[Len(visits[j].calls)].action = "addNote"
        /\ visits[j].error = OtherError
        /\ visits[j].tally = "failed"

\* C7: a failure in the body of the loop (no file for the filename, an
\* exception while reading, building or submitting) adds one to failed_count
\* and leaves run() in its for loop at the next filename of the same batch;
\* when run() ends, every filename that was ever tracked has been taken.
C7_Step ==
    (VisitMade /\ LastVisit.how # "returned")
    => /\ failed_count' = failed_count + 1
       /\ success_count' = success_count
       /\ skipped_count' = skipped_count
       /\ pc' = "for"
       /\ idx' = idx + 1
       /\ new_md_files' = new_md_files
       /\ md_files_tracked \subseteq md_files_tracked'

C7_FailureDoesNotAbort ==
    /\ [][C7_Step]_vars
    /\ [](pc = "done" => Visited = md_files_tracked)

\* C7 witness: a run has ended in which a note failed in each of the ways
\* and a note taken after them succeeded.
C7_Witness ==
    /\ pc = "done"
    /\ \E i, j, k, l, m \in 1..Len(visits) :
          /\ visits[i].how = "create_card raised"
          /\ visits[j].how = "IOError"
          /\ visits[k].how = "submission raised"
          /\ visits[l].how = "FileNotFoundError"
          /\ i < m /\ j < m /\ k < m
          /\ visits[m].tally = "success"

\* C8: a transport failure on any request made for a card, the lookup of
\* upsert mode included, makes the card count as failed.
C8_TransportFailureIsFailed ==
    \A i \in 1..Len(visits) :
        (\/ visits[i].lreply \in {"transport", "badjson"}
         \/ visits[i].wreply \in {"transport", "badjson"})
        => visits[i].tally = "failed"

\* C9: splitting a note's text never raises, so no note fails because of its
\* metadata block, and a text without a metadata delimiter is its own content
\* block.
C9_SplitIsTotal ==
    \A i \in 1..Len(visits) :
        visits[i].how \notin {"FileNotFoundError", "IOError"}
        => /\ visits[i].how # "create_card raised"
           /\ ~separate_frontmatter(ReadOf[visits[i].filename].content).raised
           /\ ReadOf[visits[i].filename].content.fm = "none"
                => separate_frontmatter(ReadOf[visits[i].filename].content).block
                     = ReadOf[visits[i].filename].content

\* the markdown files of the folder whose name differs from filename in
\* letter case or in the markdown extension only
SameNoteFiles(filename) ==
    {k \in 1..Len(Listing) :
        /\ Listing[k].isfile
        /\ SplitExt(Listing[k].name)[2] \in {MD, MARKDOWN}
        /\ NoteIdentifier(Listing[k].name) = NoteIdentifier(filename)}

\* C10: a filename that differs from a markdown file's name in letter case or
\* in the markdown extension only resolves to that file's content; a filename
\* with no such file fails to resolve.
C10_ResolutionIsFlexible ==
    \A i \in 1..Len(visits) :
        IF SameNoteFiles(visits[i].filename) # {}
        THEN /\ visits[i].how \notin {"FileNotFoundError", "IOError"}
             /\ \E k \in SameNoteFiles(visits[i].filename) :
                   ReadOf[visits[i].filename].content = Listing[k].content
        ELSE visits[i].how \in {"FileNotFoundError", "IOError"}

\* the ids of the deck's notes whose front is front
MatchesInDeck(st, front) ==
    {k \in 1..Len(st) : st[k].deck = deck_name /\ st[k].front = front}

FirstMatch(st, front) ==
    CHOOSE k \in MatchesInDeck(st, front) : \A m \in MatchesInDeck(st, front) : k <= m

\* C11: when the lookup is answered with more than one match, nothing is
\* raised and the card does not fail for it: the lookup gives the first id of
\* the answer and the card is written as an updateNote under that id, which
\* leaves the other matches as they are.
C11_Step ==
    (/\ VisitMade
     /\ LastVisit.calls # <<>>
     /\ upsert
     /\ LastVisit.lreply = "ok"
     /\ Cardinality(MatchesInDeck(store, LastVisit.card.front)) > 1)
    => /\ LastVisit.existing = FirstMatch(store, LastVisit.card.front)
       /\ Len(LastVisit.calls) = 2
       /\ LastVisit.calls[2].action = "updateNote"
       /\ LastVisit.calls[2].id = FirstMatch(store, LastVisit.card.front)
       /\ LastVisit.wreply = "ok"
            => /\ LastVisit.how = "returned"
               /\ LastVisit.tally = "success"
               /\ store'[LastVisit.existing].back = LastVisit.card.back
       /\ \A k \in 1..Len(store) :
            k # FirstMatch(store, LastVisit.card.front) => store'[k] = store[k]

C11_FirstOfManyMatches == [][C11_Step]_vars

\* C11 witness: a card was updated with success under an id while the deck
\* held two notes with its front.
C11_Witness ==
    \E i \in 1..Len(visits) :
        /\ visits[i].response = "SUCCESS"
        /\ visits[i].existing # None
        /\ visits[i].calls[2].action = "updateNote"
        /\ visits[i].calls[2].id = visits[i].existing
        /\ Cardinality(MatchesInDeck(store, visits[i].card.front)) > 1
        /\ visits[i].existing = FirstMatch(store, visits[i].card.front)

\* C12: an exception leaves the program at construction only, before any
\* note is taken and before any request: it does when the seed list is
\* missing or empty and when the folder does not exist, and in no other case;
\* run() itself never lets one out.
C12_OnlyConstructionEscapes ==
    /\ (~seeds_given \/ initial_md_files = <<>> \/ ~folder_exists) <=> (pc = "raised")
    /\ pc = "raised"
         => /\ visits = <<>>
            /\ faults = 0
            /\ runNo = 1
            /\ success_count + failed_count + skipped_count = 0

\* C13: the tags of every card are the union of the tags of the note's
\* metadata entry and the inline #tokens of its content block as written,
\* whichever is taken first; a tag declared twice is one tag, and the set is
\* empty exactly when neither channel declares a tag.
C13_TagUnion ==
    \A i \in 1..Len(visits) :
        visits[i].built
        => /\ visits[i].card.tags
                = MetadataTags(ReadOf[visits[i].filename].content)
                    \cup InlineTags(ReadOf[visits[i].filename].content)
           /\ visits[i].card.tags
                = InlineTags(ReadOf[visits[i].filename].content)
                    \cup MetadataTags(ReadOf[visits[i].filename].content)
           /\ (visits[i].card.tags = {})
                <=> /\ MetadataTags(ReadOf[visits[i].filename].content) = {}
                    /\ InlineTags(ReadOf[visits[i].filename].content) = {}

\* C13 witness: a card was built from a note that declares one tag in both
\* channels and further tags in each, one of them inside a reference, and a
\* card without tags was built from a note that declares none.
C13_Witness ==
    \E i, j \in 1..Len(visits) :
        /\ visits[i].built
        /\ MetadataTags(ReadOf[visits[i].filename].content)
              \cap InlineTags(ReadOf[visits[i].filename].content) # {}
        /\ MetadataTags(ReadOf[visits[i].filename].content)
              \ InlineTags(ReadOf[visits[i].filename].content) # {}
        /\ "hg" \in visits[i].card.tags
        /\ Cardinality(visits[i].card.tags) = 4
        /\ visits[j].built
        /\ visits[j].card.tags = {}

Range(seq) == {seq[i] : i \in 1..Len(seq)}

NoDuplicates(seq) == \A i, j \in 1..Len(seq) : seq[i] = seq[j] => i = j

\* the filenames that wait to be taken: the rest of the batch and, while a
\* batch is iterated, the list of the next one (between batches the two lists
\* are one)
Pending ==
    IF pc = "for" THEN SubSeq(new_md_files, idx, Len(new_md_files)) \o next_md_files
    ELSE new_md_files

\* C14: within a run md_files_tracked only grows; a note's reports add the
\* filenames that were not tracked, once each, to the set and to the end of
\* the next batch's list, and change neither for a filename that is tracked;
\* the filenames that wait hold no filename twice and none that was taken,
\* and together with the taken ones they are the tracked set.  Filenames are
\* the strings the trackers hold.
C14_Step ==
    (runNo' = runNo)
    => /\ md_files_tracked \subseteq md_files_tracked'
       /\ VisitMade
            => /\ Len(next_md_files') >= Len(next_md_files)
               /\ SubSeq(next_md_files', 1, Len(next_md_files)) = next_md_files
               /\ Range(SubSeq(next_md_files', Len(next_md_files) + 1, Len(next_md_files')))
                    = Range(LastVisit.found) \ md_files_tracked
               /\ md_files_tracked' = md_files_tracked \cup Range(LastVisit.found)
               /\ NoDuplicates(next_md_files')
               /\ Range(LastVisit.found) \subseteq md_files_tracked
                    => /\ md_files_tracked' = md_files_tracked
                       /\ next_md_files' = next_md_files

C14_Frontier ==
    pc # "raised"
    => /\ NoDuplicates(Pending)
       /\ Range(Pending) \cap Visited = {}
       /\ Range(Pending) \cup Visited = md_files_tracked
       /\ \A i \in 1..Len(initial_md_files) : initial_md_files[i] \in md_files_tracked

RECURSIVE FirstReports(_, _)
FirstReports(seq, seen) ==
    IF seq = <<>> THEN <<>>
    ELSE IF Head(seq) \in seen THEN FirstReports(Tail(seq), seen)
    ELSE <<Head(seq)>> \o FirstReports(Tail(seq), seen \cup {Head(seq)})

\* what the visits from (and with) the k-th on reported, in order
RECURSIVE ReportsFrom(_)
ReportsFrom(k) ==
    IF k > Len(visits) THEN <<>> ELSE visits[k].found \o ReportsFrom(k + 1)

\* the first visit of the batch that is iterated
BatchStart == Len(visits) - (idx - 1) + 1

\* the number of references on a shortest path from a seed to each filename
RECURSIVE LevelsFrom(_, _, _)
LevelsFrom(layer, seen, n) ==
    IF layer = {} THEN [f \in {} |-> 0]
    ELSE [f \in layer |-> n]
         @@ LevelsFrom((UNION {RefsOf(f) : f \in layer}) \ (seen \cup layer),
                       seen \cup layer, n + 1)

LevelOf == [sl \in SeedLists |-> LevelsFrom(Range(sl), {}, 0)]

\* C15: the traversal goes level by level: the filenames are taken in the
\* order of the batch, the batch is not changed while it is iterated, what
\* its notes report for the first time is the next batch, in the order of the
\* reports, and so no filename is taken before one that is fewer references
\* away from the seeds.
C15_Step ==
    /\ VisitMade
         => /\ pc = "for"
            /\ LastVisit.filename = new_md_files[idx]
            /\ new_md_files' = new_md_files
    /\ (pc = "for" /\ pc' = "while")
         => /\ idx > Len(new_md_files)
            /\ new_md_files' = next_md_files
            /\ visits' = visits

C15_Levels ==
    /\ pc = "for"
         => /\ idx - 1 <= Len(visits)
            /\ \A k \in 1..(idx - 1) :
                  visits[BatchStart + k - 1].filename = new_md_files[k]
            /\ next_md_files
                 = FirstReports(ReportsFrom(BatchStart),
                                {visits[k].filename : k \in 1..(BatchStart - 1)}
                                    \cup Range(new_md_files))
    /\ \A i, j \in 1..Len(visits) :
          i < j => LevelOf[initial_md_files][visits[i].filename]
                     <= LevelOf[initial_md_files][visits[j].filename]

C15_LevelByLevel ==
    /\ [][C15_Step]_vars
    /\ []C15_Levels

\* C15 witness: a run has ended that took filenames of three levels, the
\* second level being the two filenames the seed's note reported, in the
\* order of the reports.
C15_Witness ==
    /\ pc = "done"
    /\ Len(visits) >= 4
    /\ Len(visits[1].found) = 2
    /\ visits[1].found[1] # visits[1].found[2]
    /\ visits[2].filename = visits[1].found[1]
    /\ visits[3].filename = visits[1].found[2]
    /\ LevelOf[initial_md_files][visits[1].filename] = 0
    /\ LevelOf[initial_md_files][visits[3].filename] = 1
    /\ LevelOf[initial_md_files][visits[Len(visits)].filename] = 2

\* the references written in a note's content block, images apart
WrittenRefs(content) ==
    {cleaned_match(content.body[i].v) :
        i \in {j \in 1..Len(content.body) :
                 \/ content.body[j].k = "link"
                 \/ content.body[j].k = "embed" /\ ~IsImage(content.body[j].v)}}

\* the visits of notes that declare the skip tag
SkipVisits ==
    {i \in 1..Len(visits) :
        /\ visits[i].built
        /\ not_included_tag \in DeclaredTags(ReadOf[visits[i].filename].content)}

\* C16: a note that carries the skip tag reports nothing: taking it changes
\* neither tracker, sends nothing and leaves the store alone, and it counts
\* as skipped; so a filename is tracked only when it is a seed or written in
\* a taken note without the skip tag.
C16_Step ==
    (/\ VisitMade
     /\ LastVisit.built
     /\ not_included_tag \in DeclaredTags(ReadOf[LastVisit.filename].content))
    => /\ LastVisit.found = <<>>
       /\ md_files_tracked' = md_files_tracked
       /\ next_md_files' = next_md_files
       /\ LastVisit.calls = <<>>
       /\ store' = store
       /\ LastVisit.tally = "skipped"
       /\ skipped_count' = skipped_count + 1

C16_Tracked ==
    pc # "raised"
    => \A f \in md_files_tracked :
          \/ f \in Range(initial_md_files)
          \/ \E i \in (1..Len(visits)) \ SkipVisits :
                /\ visits[i].built
                /\ f \in WrittenRefs(ReadOf[visits[i].filename].content)

C16_SkipNoteReportsNothing ==
    /\ [][C16_Step]_vars
    /\ []C16_Tracked

\* C16 witness: a run has ended in which the note C, which carries the skip
\* tag and was reported by another note, was taken and counted as skipped,
\* and the filename that only C's note refers to was never tracked.
C16_Witness ==
    /\ pc = "done"
    /\ <<"C">> \notin Range(initial_md_files)
    /\ \E i \in SkipVisits :
          /\ visits[i].filename = <<"C">>
          /\ visits[i].tally = "skipped"
          /\ WrittenRefs(ReadOf[<<"C">>].content) # {}
          /\ WrittenRefs(ReadOf[<<"C">>].content) \cap md_files_tracked = {}

\* the extension of the path of ![[inner]], the part before the first pipe
PathExt(inner) == SplitExt(SplitPipe(inner)[1])[2]

\* whether that path ends in an extension the image pass recognizes
RecognizedImage(inner) == PathExt(inner) \in ImageExts

\* the positions of a note's content block before its first --- line
KeptPositions(content) ==
    {i \in 1..Len(content.body) : \A j \in 1..i : content.body[j].k # "sep"}

\* the visits that built a card with a rewritten content
RewrittenVisits ==
    {i \in 1..Len(visits) : visits[i].built /\ ~visits[i].card.should_skip}

\* C17: in a card's content every ![[...]] reference whose path ends in a
\* recognized image extension, with or without an alias, stands as the
\* placeholder, not as an underlined reference, and its path is not reported.
C17_ImagesAreMasked ==
    \A i \in RewrittenVisits :
        \A p \in 1..Len(ReadOf[visits[i].filename].content.body) :
            (/\ ReadOf[visits[i].filename].content.body[p].k = "embed"
             /\ RecognizedImage(ReadOf[visits[i].filename].content.body[p].v))
            => /\ cleaned_match(ReadOf[visits[i].filename].content.body[p].v)
                    \notin Range(visits[i].found)
               /\ cleaned_match(ReadOf[visits[i].filename].content.body[p].v)
                    \notin md_files_tracked
               /\ p \in KeptPositions(ReadOf[visits[i].filename].content)
                    => visits[i].card.back.src[p] = [k |-> "image_placeholder", v |-> <<>>]

\* C17 witness: a card was built from a note with two image references, one
\* with an alias, and with references to notes, which were reported.
C17_Witness ==
    \E i \in RewrittenVisits :
        /\ Cardinality({p \in 1..Len(visits[i].card.back.src) :
                           visits[i].card.back.src[p].k = "image_placeholder"}) = 2
        /\ \E p \in 1..Len(ReadOf[visits[i].filename].content.body) :
              /\ ReadOf[visits[i].filename].content.body[p].k = "embed"
              /\ Len(SplitPipe(ReadOf[visits[i].filename].content.body[p].v)) = 2
              /\ RecognizedImage(ReadOf[visits[i].filename].content.body[p].v)
        /\ visits[i].found # <<>>

\* C18: a ![[...]] reference whose path ends in an extension the image pass
\* does not recognize stands in the card's content as it was written, and
\* nothing else happens for it: its path is not reported.
C18_UnrecognizedLeftUntouched ==
    \A i \in RewrittenVisits :
        \A p \in 1..Len(ReadOf[visits[i].filename].content.body) :
            (/\ ReadOf[visits[i].filename].content.body[p].k = "embed"
             /\ PathExt(ReadOf[visits[i].filename].content.body[p].v) # <<>>
             /\ ~RecognizedImage(ReadOf[visits[i].filename].content.body[p].v))
            => /\ cleaned_match(ReadOf[visits[i].filename].content.body[p].v)
                    \notin Range(visits[i].found)
               /\ p \in KeptPositions(ReadOf[visits[i].filename].content)
                    => visits[i].card.back.src[p]
                         = ReadOf[visits[i].filename].content.body[p]

\* the target a reference names: what stands before its first pipe, without
\* the blanks around it
NamedTarget(inner) ==
    LET stop == IF \E b \in 1..Len(inner) : inner[b] = "|"
                THEN (CHOOSE b \in 1..Len(inner) :
                        inner[b] = "|" /\ \A c \in 1..(b - 1) : inner[c] # "|") - 1
                ELSE Len(inner)
        inked == {c \in 1..stop : inner[c] # " "}
    IN  IF inked = {} THEN <<>>
        ELSE SubSeq(inner,
                    CHOOSE c \in inked : \A d \in inked : c <= d,
                    CHOOSE c \in inked : \A d \in inked : d <= c)

\* the positions of the [[...]] references of a content block, and their
\* targets from left to right
LinkPositions(content) == {p \in 1..Len(content.body) : content.body[p].k = "link"}

TargetsInOrder(content) ==
    [n \in 1..Cardinality(LinkPositions(content)) |->
        NamedTarget(content.body[
            CHOOSE p \in LinkPositions(content) :
                Cardinality({q \in LinkPositions(content) : q <= p}) = n].v)]

\* C19: for a note without the skip tag every [[...]] reference of the
\* content block, those after the first --- line included, reports the target
\* it names, in the order of the text, while the card's content ends before
\* that line.
C19_ReportsInOrder ==
    \A i \in RewrittenVisits :
        /\ SelectSeq(visits[i].found,
                     LAMBDA f : f \in Range(TargetsInOrder(ReadOf[visits[i].filename].content)))
             = TargetsInOrder(ReadOf[visits[i].filename].content)
        /\ Len(visits[i].card.back.src)
             = Cardinality(KeptPositions(ReadOf[visits[i].filename].content))
        /\ \A p \in 1..Len(visits[i].card.back.src) :
              visits[i].card.back.src[p].k # "sep"
        /\ Range(visits[i].found) \subseteq md_files_tracked

\* C19 witness: a card was built from a note with references before and
\* after a --- line; the targets after the line were reported and taken, and a
\* target written with blanks and an alias was reported without them.
C19_Witness ==
    /\ pc = "done"
    /\ \E i \in RewrittenVisits :
          \E p \in LinkPositions(ReadOf[visits[i].filename].content) :
              /\ p \notin KeptPositions(ReadOf[visits[i].filename].content)
              /\ NamedTarget(ReadOf[visits[i].filename].content.body[p].v)
                    \in Range(visits[i].found)
              /\ NamedTarget(ReadOf[visits[i].filename].content.body[p].v) \in Visited
              /\ Len(visits[i].card.back.src)
                    < Len(ReadOf[visits[i].filename].content.body)
    /\ \E j \in RewrittenVisits :
          \E p \in LinkPositions(ReadOf[visits[j].filename].content) :
              /\ Len(NamedTarget(ReadOf[visits[j].filename].content.body[p].v))
                    < Len(ReadOf[visits[j].filename].content.body[p].v) - 2
              /\ NamedTarget(ReadOf[visits[j].filename].content.body[p].v)
                    \in Range(visits[j].found)

\* C20: taking one filename adds one to exactly one of success_count,
\* failed_count and skipped_count; no other step of a run changes a counter,
\* so none ever decreases; and the three add up to the number of filenames
\* taken, at the end of run() as at any time before.
C20_Step ==
    (runNo' = runNo)
    => IF VisitMade
       THEN \/ /\ success_count' = success_count + 1
               /\ failed_count' = failed_count
               /\ skipped_count' = skipped_count
            \/ /\ success_count' = success_count
               /\ failed_count' = failed_count + 1
               /\ skipped_count' = skipped_count
            \/ /\ success_count' = success_count
               /\ failed_count' = failed_count
               /\ skipped_count' = skipped_count + 1
       ELSE /\ counts' = counts
            /\ visits' = visits

C20_Sum ==
    /\ success_count >= 0 /\ failed_count >= 0 /\ skipped_count >= 0
    /\ success_count + failed_count + skipped_count = Len(visits)
    /\ pc = "done" => success_count + failed_count + skipped_count
                        = Cardinality(md_files_tracked)

C20_TallyAccounting ==
    /\ [][C20_Step]_vars
    /\ []C20_Sum

\* C20 witness: a run has ended with each of the three counters above zero,
\* after notes that failed in each of the ways a note can fail.
C20_Witness ==
    /\ pc = "done"
    /\ success_count >= 1
    /\ failed_count >= 3
    /\ skipped_count >= 1
    /\ \E i, j, k \in 1..Len(visits) :
          /\ visits[i].how = "FileNotFoundError"
          /\ visits[j].how = "create_card raised"
          /\ visits[k].how = "returned" /\ visits[k].response = "FAILED"

====
